---------------------------- MODULE Spec2Model ----------------------------
(***************************************************************************)
(* Model of squeezeplay's portaudio output stage                           *)
(* (src/squeezeplay/src/audio/decode/decode_portaudio.c): the render       *)
(* callback run by the backend's real-time thread, the stream-finished     *)
(* notifier, the worker-side finished_handler / start / stop /             *)
(* openstream, and the decoder that feeds the fifo.                        *)
(*                                                                         *)
(* Lengths and indices are in bytes, as in the source.  A stereo frame of  *)
(* two 32 bit samples is 8 bytes.                                          *)
(***************************************************************************)
EXTENDS Integers, Sequences, FiniteSets, TLC

(***************************************************************************)
(* Bounds of the model.                                                    *)
(***************************************************************************)
\* capacity of the decode fifo, in frames (DECODE_FIFO_SIZE / 8)
FifoFrames == 4
\* frames the decoder produces in one run of the model
MaxWrite == 3
\* the large request: long enough for one millisecond of silence not to fill it
BigRequest == 45
\* the nesting of the lock is counted up to this depth
MaxLockDepth == 2
\* the most output devices the backend enumerates
MaxDevices == 2

(***************************************************************************)
(* Program constants.                                                      *)
(***************************************************************************)
\* decode_portaudio_stop and decode_portaudio_init: the default rate
DefaultRate == 44100
\* decode_portaudio_init: max_rate, the other rate a track can have
MaxRate == 48000
\* callback: a remainder of pending silence below this many ms becomes 0
MinSilenceMs == 2
\* callback: milliseconds per second in the silence computation
MsPerSec == 1000
\* bytes of one stereo frame of sample_t (paInt32, channelCount 2)
FrameBytes == 8
\* slots of the reconfiguration channel (single-slot)
MqSlots == 1

Rates == {DefaultRate, MaxRate}
Requests == {1, 2, BigRequest}
SilenceMs == {0, 1, 5}
SkipFrames == {0, 1, 2}
\* left and right gain: the channels differ
GainPairs == {<<2, 3>>}

SAMPLES_TO_BYTES(n) == n * FrameBytes
BYTES_TO_SAMPLES(b) == b \div FrameBytes

DECODE_FIFO_SIZE == SAMPLES_TO_BYTES(FifoFrames)

\* an output frame not yet written by the callback
Garbage == <<-1, -1>>
Silence == <<0, 0>>

\* the k-th frame the decoder produces (k = 0, 1, ...): all samples differ
DecodedFrame(k) == <<2 * k + 1, 2 * k + 2>>

(***************************************************************************)
(* The fifo (audio/fifo.h): read and write index into a circular store.    *)
(***************************************************************************)
fifo_bytes_used(rptr, wptr) ==
    IF wptr >= rptr THEN wptr - rptr ELSE DECODE_FIFO_SIZE - rptr + wptr

fifo_bytes_free(rptr, wptr) == DECODE_FIFO_SIZE - fifo_bytes_used(rptr, wptr) - 1

fifo_bytes_until_rptr_wrap(rptr) == DECODE_FIFO_SIZE - rptr

fifo_rptr_incby(rptr, n) == (rptr + n) % DECODE_FIFO_SIZE

fifo_wptr_incby(wptr, n) == (wptr + n) % DECODE_FIFO_SIZE

\* fixed_mul (audio/fixed_math.h): gain times sample
fixed_mul(gain, sample) == gain * sample

VARIABLES
    \* decode_audio: the shared audio state
    running,            \* state & DECODE_STATE_RUNNING
    underrun,           \* state & DECODE_STATE_UNDERRUN
    add_silence_ms,
    skip_ahead_bytes,
    elapsed_samples,
    set_sample_rate,
    track_sample_rate,
    lgain, rgain,
    \* decode_audio->fifo and decode_fifo_buf
    rptr, wptr, buf,
    written,            \* frames the decoder has produced so far
    \* the portaudio stream
    stream,             \* "NULL", "open", or "stale" (closed, pointer kept)
    active,             \* the backend is calling the callback of the stream
    bound_rate,         \* the rate the open stream was opened with
    stream_sample_rate,
    \* the lock of decode_audio
    lockOwner, lockDepth,
    \* the message queue to the worker, and what finished logged last
    mq, logged,
    dropped,            \* the target rate that was pending when finished last
                        \* dropped its message, until that rate is read or replaced
    \* the callback thread
    cbpc, cbF, out, mixed, last, status,
    recorded,           \* the target rate the callback recorded last, until
                        \* the worker has executed a reopen request
    \* the worker thread
    wpc, caller, local_rate,
    warned,             \* a "PA error" warning was logged by the call in progress
    \* decode_portaudio_init
    devices,            \* per device, by index: Pa_IsFormatSupported at 44100
    device,             \* outputParam.device
    allocated,          \* decode_fifo_buf and decode_audio are allocated
    ret                 \* what decode_portaudio_init returned

vars == <<running, underrun, add_silence_ms, skip_ahead_bytes, elapsed_samples,
          set_sample_rate, track_sample_rate, lgain, rgain, rptr, wptr, buf,
          written, stream, active, bound_rate, stream_sample_rate,
          lockOwner, lockDepth, mq, logged, dropped, cbpc, cbF, out, mixed, last,
          status, recorded, wpc, caller, local_rate, warned, devices, device,
          allocated, ret>>

audioVars == <<running, underrun, add_silence_ms, skip_ahead_bytes,
               elapsed_samples, set_sample_rate, track_sample_rate, lgain, rgain>>
fifoVars == <<rptr, wptr, buf, written>>
streamVars == <<stream, active, bound_rate, stream_sample_rate>>
lockVars == <<lockOwner, lockDepth>>
cbVars == <<cbpc, cbF, out, mixed, last, status, recorded>>
mqVars == <<mq, logged, dropped>>
workerVars == <<wpc, caller, local_rate, warned>>
initVars == <<devices, device, allocated, ret>>

(***************************************************************************)
(* decode_audio_lock / decode_audio_unlock.  start() and stop() run with   *)
(* the lock held and call openstream, which takes it again: the owner may  *)
(* nest the lock.                                                          *)
(***************************************************************************)
CanLock(t) == lockOwner \in {"none", t}

\* one more level of nesting; MaxLockDepth stands for that depth or more,
\* which only the callback thread reaches, and it never leaves it
Deeper(d) == IF d < MaxLockDepth THEN d + 1 ELSE d


(***************************************************************************)
(* callback: the render callback.                                          *)
(***************************************************************************)
\* a memset that is left out
MemsetLeftOut(o, off, n) == o

\* memset(outputArray + off, 0, n) on an output buffer of frames
Memset(o, off, n) ==
    [i \in DOMAIN o |->
        IF BYTES_TO_SAMPLES(off) <= i /\ i < BYTES_TO_SAMPLES(off + n)
        THEN Silence ELSE o[i]]

\* the inner loop with the right gain on both channels
GainCopyOneGain(o, off, rp, samples_write) ==
    [i \in DOMAIN o |->
        IF BYTES_TO_SAMPLES(off) <= i /\ i < BYTES_TO_SAMPLES(off) + samples_write
        THEN LET f == buf[BYTES_TO_SAMPLES(rp) + (i - BYTES_TO_SAMPLES(off))]
             IN  <<fixed_mul(rgain, f[1]), fixed_mul(rgain, f[2])>>
        ELSE o[i]]

\* the inner loop of the copy: samples_write frames from decode_ptr to output_ptr
GainCopy(o, off, rp, samples_write) ==
    [i \in DOMAIN o |->
        IF BYTES_TO_SAMPLES(off) <= i /\ i < BYTES_TO_SAMPLES(off) + samples_write
        THEN LET f == buf[BYTES_TO_SAMPLES(rp) + (i - BYTES_TO_SAMPLES(off))]
             IN  <<fixed_mul(lgain, f[1]), fixed_mul(rgain, f[2])>>
        ELSE o[i]]

\* a copy that ends at the wrap point
CopyLoopToWrap(s) ==
    IF s.bytes_used = 0 THEN s
    ELSE LET wrap == fifo_bytes_until_rptr_wrap(s.rptr)
             bytes_write == IF wrap < s.bytes_used THEN wrap ELSE s.bytes_used
             samples_write == BYTES_TO_SAMPLES(bytes_write)
         IN  [rptr |-> fifo_rptr_incby(s.rptr, s.bytes_used),
              bytes_used |-> 0,
              off |-> s.off + s.bytes_used,
              o |-> GainCopy(s.o, s.off, s.rptr, samples_write),
              el |-> s.el + BYTES_TO_SAMPLES(s.bytes_used),
              n |-> s.n + 1,
              least |-> s.least]

\* a copy of one frame in each iteration
RECURSIVE CopyLoopByFrame(_)
CopyLoopByFrame(s) ==
    IF s.bytes_used = 0 THEN s
    ELSE CopyLoopByFrame([rptr |-> fifo_rptr_incby(s.rptr, FrameBytes),
                          bytes_used |-> s.bytes_used - FrameBytes,
                          off |-> s.off + FrameBytes,
                          o |-> GainCopy(s.o, s.off, s.rptr, 1),
                          el |-> s.el + 1,
                          n |-> s.n + 1,
                          least |-> FrameBytes])

\* while (bytes_used) { ... }: s = [rptr, bytes_used, off, o, el, n, least],
\* n the iterations so far and least the fewest bytes one of them wrote
RECURSIVE CopyLoop(_)
CopyLoop(s) ==
    IF s.bytes_used = 0 THEN s
    ELSE LET wrap == fifo_bytes_until_rptr_wrap(s.rptr)
             bytes_write == IF wrap < s.bytes_used THEN wrap ELSE s.bytes_used
             samples_write == BYTES_TO_SAMPLES(bytes_write)
         IN  CopyLoop([rptr |-> fifo_rptr_incby(s.rptr, bytes_write),
                       bytes_used |-> s.bytes_used - bytes_write,
                       off |-> s.off + bytes_write,
                       o |-> GainCopy(s.o, s.off, s.rptr, samples_write),
                       el |-> s.el + BYTES_TO_SAMPLES(bytes_write),
                       n |-> s.n + 1,
                       least |-> IF s.n = 0 \/ bytes_write < s.least
                                 THEN bytes_write ELSE s.least])

\* lines 64-73: the silence to add, from the pending silence and the stream rate
SilenceBytes(ms, len) ==
    LET add_bytes == SAMPLES_TO_BYTES((ms * stream_sample_rate) \div MsPerSec)
    IN  IF add_bytes > len THEN len ELSE add_bytes

SilenceLeft(ms, add_bytes) ==
    LET left == ms - (BYTES_TO_SAMPLES(add_bytes) * MsPerSec) \div stream_sample_rate
    IN  IF left < MinSilenceMs THEN 0 ELSE left

\* a skip that takes all that is pending, whatever is buffered
SkipBytesUnchecked(bytes_used, len) == skip_ahead_bytes

\* lines 81-87: only skip if it will not cause an underrun
SkipBytes(bytes_used, len) ==
    IF bytes_used >= len /\ skip_ahead_bytes > 0
    THEN IF bytes_used - len > skip_ahead_bytes
         THEN skip_ahead_bytes ELSE bytes_used - len
    ELSE 0

\* a copy of the whole request, whatever is buffered
ClampUsedToRequest(used, len) == len

\* lines 89-91: no more than the request is copied
ClampUsed(used, len) == IF used > len THEN len ELSE used

\* a skip that does not count the segment up to the wrap as elapsed
SkipStepFirstUncounted(skip_bytes) ==
    IF skip_bytes = 0
    THEN [rptr |-> rptr, skip_ahead |-> skip_ahead_bytes,
          el |-> elapsed_samples, n |-> 0]
    ELSE LET wrap == fifo_bytes_until_rptr_wrap(rptr)
             first == IF wrap < skip_bytes THEN wrap ELSE 0
             rest == skip_bytes - first
         IN  [rptr |-> fifo_rptr_incby(fifo_rptr_incby(rptr, first), rest),
              skip_ahead |-> skip_ahead_bytes - first - rest,
              el |-> elapsed_samples + BYTES_TO_SAMPLES(rest),
              n |-> IF first > 0 THEN 2 ELSE 1]

\* lines 109-126: the skip, in two segments when it crosses the wrap
\* [rptr, skip_ahead, el, n]: read index, counter, elapsed samples, segments
SkipStep(skip_bytes) ==
    IF skip_bytes = 0
    THEN [rptr |-> rptr, skip_ahead |-> skip_ahead_bytes,
          el |-> elapsed_samples, n |-> 0]
    ELSE LET wrap == fifo_bytes_until_rptr_wrap(rptr)
             first == IF wrap < skip_bytes THEN wrap ELSE 0
             rest == skip_bytes - first
         IN  [rptr |-> fifo_rptr_incby(fifo_rptr_incby(rptr, first), rest),
              skip_ahead |-> skip_ahead_bytes - first - rest,
              el |-> elapsed_samples + BYTES_TO_SAMPLES(first)
                                     + BYTES_TO_SAMPLES(rest),
              n |-> IF first > 0 THEN 2 ELSE 1]

\* What the callback saw as it took the lock.
Entry(F, reached) ==
    [F |-> F, running |-> running, underrun |-> underrun,
     ms |-> add_silence_ms, rate |-> stream_sample_rate,
     used |-> fifo_bytes_used(rptr, wptr), rptr |-> rptr,
     skip_ahead |-> skip_ahead_bytes, el |-> elapsed_samples, buf |-> buf,
     set_rate |-> set_sample_rate, track |-> track_sample_rate,
     lgain |-> lgain, rgain |-> rgain, reached |-> reached]

\* The result of lines 54-161 for a request of F frames: the new values of
\* what the callback writes, and whether it released the lock.
callback(F, reached) ==
    LET len0 == SAMPLES_TO_BYTES(F)
        out0 == [i \in 0..(F - 1) |-> Garbage]
        same == [out |-> out0, underrun |-> underrun, rptr |-> rptr,
                 skip_ahead |-> skip_ahead_bytes, el |-> elapsed_samples,
                 set_rate |-> set_sample_rate, unlocked |-> TRUE,
                 path |-> "", add |-> 0, len |-> len0, skip |-> 0,
                 copied |-> 0, ms_left |-> add_silence_ms, segs |-> 0,
                 skipsegs |-> 0, least |-> 0]
    IN
    IF ~running
    THEN \* memset; goto mixin_effects
         [same EXCEPT !.out = Memset(out0, 0, len0), !.unlocked = FALSE,
                      !.path = "stopped"]
    ELSE
    LET add_bytes == IF add_silence_ms # 0
                     THEN SilenceBytes(add_silence_ms, len0) ELSE 0
        ms_left == IF add_silence_ms # 0
                   THEN SilenceLeft(add_silence_ms, add_bytes)
                   ELSE add_silence_ms
        out1 == Memset(out0, 0, add_bytes)
        len == len0 - add_bytes
    IN
    IF add_silence_ms # 0 /\ len = 0
    THEN \* goto unlock_mixin_effects
         [same EXCEPT !.out = out1, !.path = "silence", !.add = add_bytes,
                      !.len = len, !.ms_left = ms_left]
    ELSE
    LET used == fifo_bytes_used(rptr, wptr)
        skip_bytes == SkipBytes(used, len)
        bytes_used == ClampUsed(used, len)
    IN
    IF bytes_used = 0
    THEN [same EXCEPT !.out = Memset(out1, add_bytes, len), !.underrun = TRUE,
                      !.path = "empty", !.add = add_bytes, !.len = len,
                      !.ms_left = ms_left]
    ELSE
    LET out2 == IF bytes_used < len
                THEN Memset(out1, add_bytes + bytes_used, len - bytes_used)
                ELSE out1
        sk == SkipStep(skip_bytes)
        cp == CopyLoop([rptr |-> sk.rptr, bytes_used |-> bytes_used,
                        off |-> add_bytes, o |-> out2, el |-> sk.el, n |-> 0,
                        least |-> 0])
    IN  [out |-> cp.o,
         underrun |-> (bytes_used < len),
         rptr |-> cp.rptr,
         skip_ahead |-> sk.skip_ahead,
         el |-> cp.el,
         set_rate |-> IF reached /\ track_sample_rate # stream_sample_rate
                      THEN track_sample_rate ELSE set_sample_rate,
         unlocked |-> TRUE,
         path |-> IF bytes_used < len THEN "partial" ELSE "full",
         add |-> add_bytes, len |-> len, skip |-> skip_bytes,
         copied |-> bytes_used, ms_left |-> ms_left, segs |-> cp.n,
         skipsegs |-> sk.n, least |-> cp.least]

\* the backend asks for F frames (line 52)
callback_enter(F) ==
    /\ cbpc = "idle"
    /\ stream = "open" /\ active
    /\ cbpc' = "lock"
    /\ cbF' = F
    /\ out' = [i \in 0..(F - 1) |-> Garbage]
    /\ mixed' = 0
    /\ UNCHANGED <<last, status, recorded, audioVars, fifoVars, streamVars, lockVars, mqVars, workerVars, initVars>>

\* lines 54-161: from decode_audio_lock to the mixin_effects label
callback_render ==
    /\ cbpc = "lock"
    /\ CanLock("cb")
    /\ \E reached \in BOOLEAN :
        LET r == callback(cbF, reached)
        IN  /\ out' = r.out
            /\ underrun' = r.underrun
            /\ rptr' = r.rptr
            /\ skip_ahead_bytes' = r.skip_ahead
            /\ elapsed_samples' = r.el
            /\ set_sample_rate' = r.set_rate
            /\ recorded' = IF r.set_rate # set_sample_rate
                           THEN r.set_rate ELSE recorded
            /\ dropped' = IF r.set_rate # set_sample_rate THEN 0 ELSE dropped
            /\ lockDepth' = IF r.unlocked THEN lockDepth
                            ELSE Deeper(lockDepth)
            /\ lockOwner' = IF r.unlocked THEN lockOwner ELSE "cb"
            /\ last' = [entry |-> Entry(cbF, reached), path |-> r.path,
                        add |-> r.add, len |-> r.len, skip |-> r.skip,
                        copied |-> r.copied, ms_left |-> r.ms_left,
                        segs |-> r.segs, skipsegs |-> r.skipsegs,
                        least |-> r.least, unlocked |-> r.unlocked]
    /\ cbpc' = "mix"
    /\ UNCHANGED <<running, add_silence_ms, track_sample_rate, lgain, rgain,
                   wptr, buf, written, streamVars, mq, logged, cbF, mixed,
                   status, workerVars, initVars>>

\* lines 163-165: decode_sample_mix over the whole buffer
callback_mix ==
    /\ cbpc = "mix"
    /\ mixed' = SAMPLES_TO_BYTES(cbF)
    /\ cbpc' = "return"
    /\ UNCHANGED <<cbF, out, last, status, recorded, audioVars, fifoVars, streamVars,
                   lockVars, mqVars, workerVars, initVars>>

\* line 167: return paContinue; the output buffer goes back to the backend
callback_return ==
    /\ cbpc = "return"
    /\ status' = "paContinue"
    /\ cbpc' = "idle"
    /\ cbF' = 0 /\ out' = <<>> /\ mixed' = 0
    /\ last' = [path |-> "none"]
    /\ UNCHANGED <<recorded, audioVars, fifoVars, streamVars, lockVars, mqVars, workerVars, initVars>>

(***************************************************************************)
(* finished: the stream-finished notifier.  The backend delivers it, off   *)
(* the callback, once the stream has stopped.                              *)
(***************************************************************************)
\* mqueue_write_request: a slot to write into, if there is one
mqueue_write_request(q) == Len(q) < MqSlots

\* a notifier that writes its request whether or not it was given a slot
finishedUnchecked(q) ==
    IF set_sample_rate # 0 THEN Append(q, "finished_handler") ELSE q

\* lines 182-194
finished(q) ==
    IF set_sample_rate # 0
    THEN IF mqueue_write_request(q)
         THEN Append(q, "finished_handler")     \* mqueue_write_complete
         ELSE q                                 \* dropped
    ELSE q

stream_finished ==
    /\ stream = "open" /\ active
    /\ cbpc = "idle"
    /\ active' = FALSE
    /\ mq' = finished(mq)
    /\ logged' = IF set_sample_rate # 0 /\ ~mqueue_write_request(mq)
                 THEN "Full message queue, dropped finished message"
                 ELSE ""
    /\ dropped' = IF set_sample_rate # 0 /\ ~mqueue_write_request(mq)
                  THEN set_sample_rate ELSE dropped
    /\ UNCHANGED <<stream, bound_rate, stream_sample_rate, audioVars, fifoVars,
                   lockVars, cbVars, workerVars, initVars>>

(***************************************************************************)
(* The worker: finished_handler, start, stop, and openstream in steps.     *)
(***************************************************************************)
\* lines 171-175: mqueue_read_complete, then openstream
finished_handler ==
    /\ wpc = "idle"
    /\ mq # <<>>
    /\ mq' = Tail(mq)
    /\ caller' = "handler"
    /\ wpc' = "close"
    /\ warned' = FALSE
    /\ UNCHANGED <<logged, dropped, local_rate, audioVars, fifoVars, streamVars, lockVars,
                   cbVars, initVars>>

\* lines 197-203, called with the lock held
decode_portaudio_start ==
    /\ wpc = "idle"
    /\ CanLock("worker")
    /\ lockOwner' = "worker"
    /\ lockDepth' = lockDepth + 1
    /\ caller' = "start"
    /\ wpc' = "close"
    /\ warned' = FALSE
    /\ UNCHANGED <<local_rate, audioVars, fifoVars, streamVars, mqVars, cbVars, initVars>>

\* a stop that leaves the pending target rate as it finds it
decode_portaudio_stop_rate_kept ==
    /\ wpc = "idle"
    /\ CanLock("worker")
    /\ lockOwner' = "worker"
    /\ lockDepth' = lockDepth + 1
    /\ caller' = "stop"
    /\ wpc' = "close"
    /\ warned' = FALSE
    /\ UNCHANGED <<local_rate, audioVars, fifoVars, streamVars, mqVars, cbVars, initVars>>

\* lines 213-221, called with the lock held
decode_portaudio_stop ==
    /\ wpc = "idle"
    /\ CanLock("worker")
    /\ lockOwner' = "worker"
    /\ lockDepth' = lockDepth + 1
    /\ set_sample_rate' = DefaultRate
    /\ dropped' = 0
    /\ caller' = "stop"
    /\ wpc' = "close"
    /\ warned' = FALSE
    /\ UNCHANGED <<local_rate, running, underrun, add_silence_ms, skip_ahead_bytes,
                   elapsed_samples, track_sample_rate, lgain, rgain, fifoVars,
                   streamVars, mq, logged, cbVars, initVars>>

\* lines 228-232.  Pa_CloseStream waits for a callback in progress to
\* return, and the handle it was given is closed whatever it returns.  The
\* pointer is left as it is: after the close it is stale.  Closing a stale
\* handle is undefined: the backend returns an error, or the process dies.
openstream_close ==
    /\ wpc = "close"
    /\ (stream = "open" /\ active) => cbpc = "idle"
    /\ \/ /\ stream = "NULL"
          /\ UNCHANGED <<stream, warned>>
          /\ wpc' = "lock"
       \/ /\ stream = "open"
          /\ stream' = "stale"
          /\ \E ok \in BOOLEAN : warned' = (warned \/ ~ok)
          /\ wpc' = "lock"
       \/ /\ stream = "stale"
          /\ UNCHANGED stream
          /\ warned' = TRUE
          /\ \E dies \in BOOLEAN : wpc' = IF dies THEN "crashed" ELSE "lock"
    /\ active' = FALSE
    /\ UNCHANGED <<bound_rate, stream_sample_rate, caller, local_rate, audioVars,
                   fifoVars, lockVars, mqVars, cbVars, initVars>>

\* lines 234-237
openstream_lock ==
    /\ wpc = "lock"
    /\ CanLock("worker")
    /\ local_rate' = set_sample_rate
    /\ set_sample_rate' = 0
    /\ dropped' = 0
    /\ wpc' = "open"
    /\ UNCHANGED <<caller, warned, running, underrun, add_silence_ms,
                   skip_ahead_bytes, elapsed_samples, track_sample_rate, lgain,
                   rgain, fifoVars, streamVars, lockVars, mq, logged, cbVars,
                   initVars>>

\* lines 239-251: Pa_OpenStream may fail, and fails for a rate of 0; when it
\* fails it leaves the pointer as it is
openstream_open ==
    /\ wpc = "open"
    /\ \E ok \in BOOLEAN :
        /\ ok => local_rate # 0
        /\ stream' = IF ok THEN "open" ELSE stream
        /\ bound_rate' = IF ok THEN local_rate ELSE bound_rate
        /\ warned' = (warned \/ ~ok)
    /\ stream_sample_rate' = local_rate
    /\ recorded' = IF caller = "handler" THEN 0 ELSE recorded
    /\ wpc' = "start"
    /\ UNCHANGED <<active, caller, local_rate, audioVars, fifoVars, lockVars, mqVars,
                   cbpc, cbF, out, mixed, last, status, initVars>>

\* lines 254-265: set the notifier, query the stream, start it, return to
\* the caller.  With a pointer that is NULL or stale the calls are
\* undefined: the backend returns errors, or the process dies.
openstream_start ==
    /\ wpc = "start"
    /\ \/ /\ stream = "open"
          /\ \E ok \in BOOLEAN :
                /\ active' = ok
                /\ warned' = (warned \/ ~ok)
          /\ wpc' = "idle"
       \/ /\ stream # "open"
          /\ active' = FALSE
          /\ warned' = TRUE
          /\ \E dies \in BOOLEAN : wpc' = IF dies THEN "crashed" ELSE "idle"
    /\ IF caller \in {"start", "stop"} /\ wpc' = "idle"
       THEN /\ lockDepth' = lockDepth - 1
            /\ lockOwner' = IF lockDepth = 1 THEN "none" ELSE lockOwner
       ELSE UNCHANGED lockVars
    /\ ret' = IF caller = "init" /\ wpc' = "idle" THEN 1 ELSE ret
    /\ UNCHANGED <<stream, bound_rate, stream_sample_rate, caller, local_rate,
                   audioVars, fifoVars, mqVars, cbVars, devices, device, allocated>>

(***************************************************************************)
(* decode_portaudio_init: the choice of the output device, the allocation  *)
(* of the shared state, and the first openstream.                          *)
(***************************************************************************)
\* a search that keeps the last device that supports the format
SelectDeviceLast(devs) ==
    LET sup == {i \in 0..(Len(devs) - 1) : devs[i + 1]}
    IN  IF sup = {} THEN Len(devs)
        ELSE CHOOSE i \in sup : \A j \in sup : j <= i

\* lines 284-301: i as the loop leaves it, num_devices if no device
\* supports stereo at 44100
SelectDevice(devs) ==
    LET sup == {i \in 0..(Len(devs) - 1) : devs[i + 1]}
    IN  IF sup = {} THEN Len(devs)
        ELSE CHOOSE i \in sup : \A j \in sup : i <= j

\* lines 268-334.  env: Pa_Initialize or one of the two malloc may fail.
decode_portaudio_init ==
    /\ wpc = "init"
    /\ \E env \in {"ok", "Pa_Initialize", "decode_fifo_buf", "decode_audio"} :
        LET i == SelectDevice(devices)
            num_devices == Len(devices)
        IN  IF env = "Pa_Initialize"
            THEN \* goto err0
                 /\ warned' = TRUE /\ ret' = 0 /\ wpc' = "unavailable"
                 /\ UNCHANGED <<device, allocated, set_sample_rate, caller>>
            ELSE IF i >= num_devices
            THEN \* no suitable audio device found
                 /\ device' = IF num_devices = 0 THEN device ELSE num_devices - 1
                 /\ ret' = 0 /\ wpc' = "unavailable"
                 /\ UNCHANGED <<warned, allocated, set_sample_rate, caller>>
            ELSE IF env = "decode_fifo_buf"
            THEN \* goto err0
                 /\ device' = i
                 /\ warned' = TRUE /\ ret' = 0 /\ wpc' = "unavailable"
                 /\ UNCHANGED <<allocated, set_sample_rate, caller>>
            ELSE IF env = "decode_audio"
            THEN \* goto err1: decode_fifo_buf stays allocated
                 /\ device' = i
                 /\ allocated' = {"decode_fifo_buf"}
                 /\ warned' = TRUE /\ ret' = 0 /\ wpc' = "unavailable"
                 /\ UNCHANGED <<set_sample_rate, caller>>
            ELSE /\ device' = i
                 /\ allocated' = {"decode_fifo_buf", "decode_audio"}
                 /\ set_sample_rate' = DefaultRate
                 /\ caller' = "init"
                 /\ wpc' = "close"
                 /\ UNCHANGED <<warned, ret>>
    /\ UNCHANGED <<devices, local_rate, running, underrun, add_silence_ms,
                   skip_ahead_bytes, elapsed_samples, track_sample_rate, lgain,
                   rgain, fifoVars, streamVars, lockVars, mqVars, cbVars>>

(***************************************************************************)
(* The decoder, on the worker thread and under the lock.                   *)
(***************************************************************************)
decoder_write ==
    /\ wpc = "idle"
    /\ CanLock("worker")
    /\ written < MaxWrite
    /\ fifo_bytes_free(rptr, wptr) >= FrameBytes
    /\ buf' = [buf EXCEPT ![BYTES_TO_SAMPLES(wptr)] = DecodedFrame(written)]
    /\ wptr' = fifo_wptr_incby(wptr, FrameBytes)
    /\ written' = written + 1
    /\ UNCHANGED <<rptr, audioVars, streamVars, lockVars, mqVars, cbVars, workerVars, initVars>>

decoder_run ==
    /\ wpc = "idle"
    /\ CanLock("worker")
    /\ running' = ~running
    /\ UNCHANGED <<underrun, add_silence_ms, skip_ahead_bytes, elapsed_samples,
                   set_sample_rate, track_sample_rate, lgain, rgain, fifoVars,
                   streamVars, lockVars, mqVars, cbVars, workerVars, initVars>>

decoder_silence ==
    /\ wpc = "idle"
    /\ CanLock("worker")
    /\ \E ms \in SilenceMs : add_silence_ms' = ms
    /\ UNCHANGED <<running, underrun, skip_ahead_bytes, elapsed_samples,
                   set_sample_rate, track_sample_rate, lgain, rgain, fifoVars,
                   streamVars, lockVars, mqVars, cbVars, workerVars, initVars>>

decoder_skip ==
    /\ wpc = "idle"
    /\ CanLock("worker")
    /\ \E n \in SkipFrames : skip_ahead_bytes' = SAMPLES_TO_BYTES(n)
    /\ UNCHANGED <<running, underrun, add_silence_ms, elapsed_samples,
                   set_sample_rate, track_sample_rate, lgain, rgain, fifoVars,
                   streamVars, lockVars, mqVars, cbVars, workerVars, initVars>>

decoder_track ==
    /\ wpc = "idle"
    /\ CanLock("worker")
    /\ \E r \in Rates : track_sample_rate' = r
    /\ UNCHANGED <<running, underrun, add_silence_ms, skip_ahead_bytes,
                   elapsed_samples, set_sample_rate, lgain, rgain, fifoVars,
                   streamVars, lockVars, mqVars, cbVars, workerVars, initVars>>

(***************************************************************************)
(* Spec: the stream's life.  The state as decode_portaudio_init calls      *)
(* openstream (line 325): the fifo is empty, the target rate is 44100, no  *)
(* stream is open.  The other fields of decode_audio are not set by init:  *)
(* the flags and the track rate take any value, and no silence and no skip *)
(* are pending.                                                            *)
(***************************************************************************)
Idle ==
    /\ elapsed_samples = 0
    /\ buf = [i \in 0..(FifoFrames - 1) |-> Garbage]
    /\ written = 0
    /\ lockOwner = "none" /\ lockDepth = 0
    /\ mq = <<>> /\ logged = "" /\ dropped = 0
    /\ recorded = 0
    /\ cbpc = "idle" /\ cbF = 0 /\ out = <<>> /\ mixed = 0
    /\ last = [path |-> "none"] /\ status = "none"
    /\ local_rate = 0
    /\ warned = FALSE

Init ==
    /\ Idle
    /\ rptr = 0 /\ wptr = 0
    /\ running \in BOOLEAN
    /\ underrun \in BOOLEAN
    /\ add_silence_ms = 0
    /\ skip_ahead_bytes = 0
    /\ set_sample_rate = DefaultRate
    /\ track_sample_rate \in Rates
    /\ lgain = 1 /\ rgain = 1
    /\ stream = "NULL" /\ active = FALSE
    /\ bound_rate = 0 /\ stream_sample_rate = 0
    /\ wpc = "close" /\ caller = "init"
    /\ devices = <<TRUE>> /\ device = 0
    /\ allocated = {"decode_fifo_buf", "decode_audio"}
    /\ ret = -1

Next ==
    \/ \E F \in {1, 2} : callback_enter(F)
    \/ callback_render
    \/ callback_mix
    \/ callback_return
    \/ stream_finished
    \/ finished_handler
    \/ decode_portaudio_start
    \/ decode_portaudio_stop
    \/ openstream_close
    \/ openstream_lock
    \/ openstream_open
    \/ openstream_start
    \/ decoder_write
    \/ decoder_run
    \/ decoder_track

Spec == Init /\ [][Next]_vars

(***************************************************************************)
(* FairSpec: Spec with the scheduling the threads give.  A callback that   *)
(* was called runs on when it can take the lock; the worker runs on        *)
(* through openstream when it can, and keeps servicing the message queue.  *)
(* Nothing is assumed of the backend's requests and notifications, of the  *)
(* decoder, or of calls of start and stop.                                 *)
(***************************************************************************)
Fairness ==
    /\ WF_vars(callback_render \/ callback_mix \/ callback_return)
    /\ WF_vars(openstream_close \/ openstream_lock \/ openstream_open
                  \/ openstream_start)
    /\ SF_vars(finished_handler)

FairSpec == Spec /\ Fairness

(***************************************************************************)
(* ReopenSpec: the behaviours of FairSpec in which start() and stop() are  *)
(* not called and the track rate stays as it is: streams end and are       *)
(* reopened by the worker on request only.                                 *)
(***************************************************************************)
ReopenNext ==
    \/ \E F \in {1, 2} : callback_enter(F)
    \/ callback_render
    \/ callback_mix
    \/ callback_return
    \/ stream_finished
    \/ finished_handler
    \/ openstream_close
    \/ openstream_lock
    \/ openstream_open
    \/ openstream_start
    \/ decoder_write
    \/ decoder_run

ReopenSpec == Init /\ [][ReopenNext]_vars /\ Fairness

(***************************************************************************)
(* RenderSpec: the render path.  A stream is open and started at one of    *)
(* the rates and stays so; it has played before, so the empty fifo's       *)
(* indices are anywhere.  The decoder fills the fifo and sets the running  *)
(* flag, the pending silence and the skip-ahead between the callbacks: its *)
(* steps commute with callback_enter, callback_mix and callback_return,    *)
(* which touch only the callback's own variables, and the lock keeps them  *)
(* out of callback_render.                                                 *)
(***************************************************************************)
RenderInit ==
    /\ Idle
    /\ \E p \in 0..(FifoFrames - 1) :
        rptr = SAMPLES_TO_BYTES(p) /\ wptr = SAMPLES_TO_BYTES(p)
    /\ running \in BOOLEAN
    /\ underrun \in BOOLEAN
    /\ add_silence_ms \in SilenceMs
    /\ skip_ahead_bytes \in {SAMPLES_TO_BYTES(n) : n \in SkipFrames}
    /\ set_sample_rate = 0
    /\ track_sample_rate = DefaultRate
    /\ \E g \in GainPairs : lgain = g[1] /\ rgain = g[2]
    /\ stream = "open" /\ active = TRUE
    /\ stream_sample_rate \in Rates /\ bound_rate = stream_sample_rate
    /\ wpc = "idle" /\ caller = "init"
    /\ devices = <<TRUE>> /\ device = 0
    /\ allocated = {"decode_fifo_buf", "decode_audio"}
    /\ ret = 1

RenderNext ==
    \/ \E F \in Requests : callback_enter(F)
    \/ callback_render
    \/ callback_mix
    \/ callback_return
    \/ cbpc = "idle" /\ decoder_write
    \/ cbpc = "idle" /\ decoder_run
    \/ cbpc = "idle" /\ decoder_silence
    \/ cbpc = "idle" /\ decoder_skip

RenderSpec == RenderInit /\ [][RenderNext]_vars

(***************************************************************************)
(* InitSpec: the start of the program.  decode_portaudio_init runs with    *)
(* any list of at most MaxDevices devices, each supporting stereo at 44100 *)
(* or not; then the first stream plays, finishes and is reopened on        *)
(* request.                                                                *)
(***************************************************************************)
DeviceLists == UNION {[1..n -> BOOLEAN] : n \in 0..MaxDevices}

InitInit ==
    /\ Idle
    /\ rptr = 0 /\ wptr = 0
    /\ running \in BOOLEAN
    /\ underrun \in BOOLEAN
    /\ add_silence_ms = 0
    /\ skip_ahead_bytes = 0
    /\ set_sample_rate = 0
    /\ track_sample_rate \in Rates
    /\ lgain = 1 /\ rgain = 1
    /\ stream = "NULL" /\ active = FALSE
    /\ bound_rate = 0 /\ stream_sample_rate = 0
    /\ wpc = "init" /\ caller = "none"
    /\ devices \in DeviceLists /\ device = 0
    /\ allocated = {}
    /\ ret = -1

InitNext ==
    \/ decode_portaudio_init
    \/ openstream_close
    \/ openstream_lock
    \/ openstream_open
    \/ openstream_start
    \/ callback_enter(1)
    \/ callback_render
    \/ callback_mix
    \/ callback_return
    \/ stream_finished
    \/ finished_handler
    \/ decoder_write

InitSpec == InitInit /\ [][InitNext]_vars

(***************************************************************************)
(* Properties of the render path.  While cbpc = "mix" the callback has run *)
(* lines 54-161; last.entry is what it saw as it took the lock.            *)
(***************************************************************************)
Rendered == cbpc = "mix"

Min(a, b) == IF a < b THEN a ELSE b

\* the frames buffered at entry, and the frames asked for
EntryU == BYTES_TO_SAMPLES(last.entry.used)
EntryF == last.entry.F

\* the skip the design asks for: min(pending, buffered - requested)
DesignSkip(used, len, pending) ==
    IF pending > 0 /\ used >= len THEN Min(pending, used - len) ELSE 0

\* the i-th buffered frame after the skipped ones, gain applied
ScaledFrame(i) ==
    LET e == last.entry
        first == e.rptr + DesignSkip(e.used, last.len, e.skip_ahead)
        f == e.buf[(BYTES_TO_SAMPLES(first) + i) % FifoFrames]
    IN  <<e.lgain * f[1], e.rgain * f[2]>>

\* C1: a callback that runs with the running flag set and no silence
\* pending, asked for F frames with U frames buffered, writes min(U, F)
\* gain-scaled buffered frames followed by F - min(U, F) frames of silence,
\* and leaves the underrun flag set exactly if U < F.
C1_RenderedOutput ==
    (Rendered /\ last.entry.running /\ last.entry.ms = 0) =>
        LET n == Min(EntryU, EntryF)
        IN  /\ DOMAIN out = 0..(EntryF - 1)
            /\ \A i \in 0..(n - 1) : out[i] = ScaledFrame(i)
            /\ \A i \in n..(EntryF - 1) : out[i] = Silence
            /\ underrun = (EntryU < EntryF)

C1_Witness ==
    /\ Rendered /\ last.entry.running /\ last.entry.ms = 0
    /\ 0 < EntryU /\ EntryU < EntryF
    /\ last.entry.rptr + last.entry.used > DECODE_FIFO_SIZE

\* C2: whenever the callback is past its locked section (mixing, returning
\* or returned), the callback thread does not hold the lock: it has
\* released it as often as it has taken it.
C2_LockReleased ==
    cbpc \in {"mix", "return", "idle"} => (lockOwner # "cb" /\ lockDepth = 0)

\* C3: a callback that runs with the running flag set and silence pending
\* leaves the stored pending silence smaller than it found it, and 0 if
\* what is left is below 2 ms.
C3_SilenceDecreases ==
    (Rendered /\ last.entry.running /\ last.entry.ms > 0) =>
        LET e == last.entry
            left == e.ms - (BYTES_TO_SAMPLES(last.add) * MsPerSec) \div e.rate
        IN  /\ add_silence_ms < e.ms
            /\ add_silence_ms = IF left < MinSilenceMs THEN 0 ELSE left

\* C4: the bytes a callback skips are at most the pending skip-ahead and at
\* most buffered minus requested; it skips only if the buffered bytes cover
\* the request, then still copies the whole request and clears the underrun
\* flag; the skip-ahead counter goes down by the bytes skipped and stays
\* >= 0.
C4_SkipBounded ==
    Rendered =>
        LET e == last.entry
            skipped == e.skip_ahead - skip_ahead_bytes
        IN  /\ skipped >= 0 /\ skip_ahead_bytes >= 0
            /\ skipped > 0 =>
                 /\ skipped <= Min(e.skip_ahead, e.used - last.len)
                 /\ e.used >= last.len
                 /\ last.copied = last.len
                 /\ ~underrun
                 /\ \A i \in DOMAIN out : out[i] # Silence
                       \/ i < BYTES_TO_SAMPLES(last.add)

C4_Witness ==
    /\ Rendered
    /\ last.entry.skip_ahead - skip_ahead_bytes > 0
    /\ skip_ahead_bytes > 0

\* C5: the fifo's indices stay in [0, capacity), its level in
\* [0, capacity], the frames consumed plus the frames buffered are the
\* frames produced, and what one callback skips and copies is no more than
\* was buffered when it took the lock.
C5_FifoBounds ==
    /\ rptr \in 0..(DECODE_FIFO_SIZE - 1)
    /\ wptr \in 0..(DECODE_FIFO_SIZE - 1)
    /\ fifo_bytes_used(rptr, wptr) \in 0..DECODE_FIFO_SIZE
    /\ elapsed_samples + BYTES_TO_SAMPLES(fifo_bytes_used(rptr, wptr)) = written
    /\ Rendered =>
        /\ last.skip + last.copied <= last.entry.used
        /\ rptr = (last.entry.rptr + last.skip + last.copied) % DECODE_FIFO_SIZE

C5_Witness ==
    /\ Rendered
    /\ last.skip > 0 /\ last.copied > 0
    /\ last.skip + last.copied = last.entry.used
    /\ rptr < last.entry.rptr

\* the frames of the output that hold audio data
DataFrames == Cardinality({i \in DOMAIN out : out[i] \notin {Silence, Garbage}})

\* C6: a callback adds to the elapsed-sample counter exactly the frames it
\* skipped plus the frames of data it wrote, and nothing when it wrote
\* silence only; the counter never goes down.
C6_ElapsedExact ==
    Rendered =>
        LET e == last.entry
        IN  /\ elapsed_samples = e.el
                 + BYTES_TO_SAMPLES(e.skip_ahead - skip_ahead_bytes) + DataFrames
            /\ elapsed_samples >= e.el
            /\ DataFrames = 0 => elapsed_samples = e.el

C6_Witness ==
    /\ Rendered
    /\ last.skipsegs = 2 /\ DataFrames > 0
    /\ elapsed_samples = last.entry.el + 3

\* C7: a callback that finds the running flag clear writes F frames of
\* silence, leaves the read index, the elapsed-sample counter, the
\* skip-ahead counter, the pending silence and the pending target rate as
\* they were, then calls the mixer once over all F frames and returns
\* paContinue.
C7_StoppedCallback ==
    [][/\ (cbpc = "lock" /\ cbpc' = "mix" /\ ~running) =>
            /\ out' = [i \in 0..(cbF - 1) |-> Silence]
            /\ UNCHANGED <<rptr, elapsed_samples, skip_ahead_bytes,
                           add_silence_ms, set_sample_rate>>
       /\ (cbpc = "mix" /\ cbpc' # "mix" /\ ~last.entry.running) =>
            /\ cbpc' = "return"
            /\ mixed = 0 /\ mixed' = SAMPLES_TO_BYTES(last.entry.F)
            /\ out' = [i \in 0..(last.entry.F - 1) |-> Silence]
       /\ (cbpc = "return" /\ cbpc' # "return" /\ ~last.entry.running) =>
            /\ cbpc' = "idle"
            /\ status' = "paContinue"
      ]_vars

C7_Witness ==
    /\ cbpc = "return" /\ ~last.entry.running
    /\ last.entry.F = BigRequest
    /\ last.entry.used > 0 /\ last.entry.ms > 0 /\ last.entry.skip_ahead > 0
    /\ mixed = SAMPLES_TO_BYTES(BigRequest)

\* C13: the i-th frame a callback copies is the fifo's frame at (read index
\* after the skip + i frames) modulo the capacity, its left sample times
\* the left gain and its right sample times the right gain, written after
\* the frames of added silence; the same holds on both sides of the wrap
\* point, so each buffered frame of the copied range is written once.
C13_WrapCopy ==
    Rendered =>
        LET e == last.entry
            first == BYTES_TO_SAMPLES((e.rptr + last.skip) % DECODE_FIFO_SIZE)
            base == BYTES_TO_SAMPLES(last.add)
            n == BYTES_TO_SAMPLES(last.copied)
        IN  /\ \A i \in 0..(n - 1) :
                  LET f == e.buf[(first + i) % FifoFrames]
                  IN  out[base + i] = <<fixed_mul(e.lgain, f[1]),
                                        fixed_mul(e.rgain, f[2])>>
            /\ \A i \in DOMAIN out :
                  (i < base \/ i >= base + n) => out[i] = Silence
            /\ rptr = SAMPLES_TO_BYTES((first + n) % FifoFrames)

\* a copy of two frames that crosses the wrap point, after a skip
C13_Witness ==
    /\ Rendered
    /\ last.segs = 2 /\ last.copied = SAMPLES_TO_BYTES(2)
    /\ last.skip > 0
    /\ last.entry.rptr + last.skip < DECODE_FIFO_SIZE
    /\ rptr > 0

\* C15: when a callback has run, the underrun flag tells of that callback:
\* it is set exactly if the fifo held less than the length that was left
\* to fill (nothing, when the pending silence filled the request); and
\* after a callback that found the running flag clear it is not set unless
\* the fifo held less than the request.
C15_UnderrunFresh ==
    Rendered =>
        IF last.path = "stopped"
        THEN underrun => (last.entry.used < last.len)
        ELSE underrun = (last.entry.used < last.len)

\* C17: the copy loop of a callback makes at most two iterations, each of
\* them writes at least one frame, together they write the bytes to copy,
\* and the skip advances the read index in at most two segments.
C17_BoundedLoops ==
    Rendered =>
        /\ last.segs \in 0..2
        /\ last.skipsegs \in 0..2
        /\ last.copied > 0 => (last.segs >= 1 /\ last.least >= FrameBytes)
        /\ last.segs * last.least <= last.copied
        /\ last.skip > 0 => last.skipsegs >= 1
        /\ last.segs = 2 =>
              last.entry.rptr + last.skip + last.copied > DECODE_FIFO_SIZE

\* a copy of three frames in two iterations, the shorter of one frame
C17_Witness ==
    /\ Rendered
    /\ last.segs = 2 /\ last.least = FrameBytes
    /\ last.copied = SAMPLES_TO_BYTES(3)

(***************************************************************************)
(* Properties of the stream's life.                                        *)
(***************************************************************************)
\* the steps, as seen from outside
NotifierStep == stream = "open" /\ active /\ stream' = "open" /\ ~active'
HandlerStep == wpc = "idle" /\ wpc' = "close" /\ caller' = "handler"
RecordStep ==
    /\ cbpc = "lock" /\ cbpc' = "mix"
    /\ last'.entry.reached /\ last'.copied > 0
    /\ track_sample_rate # stream_sample_rate

\* C8: the message queue never holds more than one reopen request; a
\* stream-finished notification that finds a request pending leaves the
\* queue as it is; a request enters the queue only by a notification that
\* finds a target rate pending, and each execution of finished_handler
\* starts with the worker idle and takes one request out of the queue.
C8_OneRequest ==
    /\ [](Len(mq) <= 1)
    /\ [][/\ (NotifierStep /\ mq # <<>>) => mq' = mq
          /\ Len(mq') > Len(mq) => (NotifierStep /\ set_sample_rate # 0)
          /\ HandlerStep => (mq # <<>> /\ mq' = Tail(mq))
          /\ Len(mq') < Len(mq) => HandlerStep
         ]_vars

C8_Witness ==
    /\ logged = "Full message queue, dropped finished message"
    /\ Len(mq) = 1
    /\ ~active /\ wpc = "idle"

\* C9: a callback that reaches the track start with a track rate R other
\* than the stream's records R as the pending target rate and leaves the
\* stream as it is; and when the worker then executes a reopen request, the
\* stream's current rate becomes the recorded R and the pending target
\* rate 0.
C9_ReopenAtRecordedRate ==
    [][/\ RecordStep =>
            /\ set_sample_rate' = track_sample_rate
            /\ UNCHANGED <<stream, active, bound_rate, stream_sample_rate>>
       /\ (caller = "handler" /\ wpc = "open" /\ wpc' = "start"
              /\ recorded # 0) =>
            /\ stream_sample_rate' = recorded
            /\ set_sample_rate' = 0
      ]_vars

\* C10: a reopen request in the queue is not taken out or replaced by
\* anything but its execution, it is executed, and its execution runs
\* openstream to its end (unless the backend, given a closed handle, brings
\* the process down).
C10_RequestExecuted ==
    /\ [][mq # <<>> /\ mq' # mq => (HandlerStep /\ mq' = Tail(mq))]_vars
    /\ []<>(wpc = "idle") => ((mq # <<>>) ~> (mq = <<>>))
    /\ (caller = "handler" /\ wpc # "idle") ~> (wpc \in {"idle", "crashed"})

\* a notification that finds a target rate pending and the queue full
DropStep == NotifierStep /\ set_sample_rate # 0 /\ ~mqueue_write_request(mq)

\* C11: a stream-finished notification that finds the queue full returns
\* at once, having logged the drop and changed nothing else: the pending
\* target rate, the stream and the queue are as they were.  A notification
\* that finds a target rate pending and the queue free enqueues the reopen.
\* And after a drop the stream's current rate comes to be the pending
\* target rate: the program never comes to rest with the target rate of
\* the drop still pending.
C11_DroppedSelfHeals ==
    /\ [][DropStep =>
            /\ logged' = "Full message queue, dropped finished message"
            /\ UNCHANGED <<mq, stream, bound_rate, stream_sample_rate,
                           audioVars, fifoVars, lockVars, cbVars, workerVars>>
         ]_vars
    /\ [][(NotifierStep /\ set_sample_rate # 0 /\ mq = <<>>) =>
            mq' = <<"finished_handler">>]_vars
    /\ []((dropped # 0 /\ set_sample_rate = dropped) => ENABLED Next)

\* the worker is in start() or stop()
InStartStop == caller \in {"start", "stop"} /\ wpc \in {"close", "lock", "open", "start"}
StopCall == wpc = "idle" /\ wpc' = "close" /\ caller' = "stop"
StopReturn == caller = "stop" /\ wpc = "start" /\ wpc' = "idle"
StartReturn == caller = "start" /\ wpc = "start" /\ wpc' = "idle"

\* C12: stop() sets the pending target rate to 44100, and start() leaves
\* it as it is; the openstream they run closes the stream that was open,
\* reads the pending target rate, which nothing has changed since the
\* call, and clears it; and when stop() or start() returns, the stream's
\* current rate is 44100 for stop() and the rate read for start(), the
\* pending target rate is 0 and, if the backend logged no error, a new
\* stream is open, started and bound to that rate.
C12_StopReopensAtDefault ==
    [][/\ StopCall => set_sample_rate' = DefaultRate
       /\ (InStartStop /\ wpc \in {"close", "lock"}) =>
            \/ UNCHANGED set_sample_rate
            \/ wpc = "lock" /\ wpc' = "open"
                  /\ local_rate' = set_sample_rate /\ set_sample_rate' = 0
       /\ (InStartStop /\ wpc = "close" /\ wpc' # "close") =>
            stream' # "open" /\ ~active'
       /\ StopReturn =>
            /\ stream_sample_rate' = DefaultRate
            /\ set_sample_rate' = 0
            /\ ~warned' => (stream' = "open" /\ active' /\ bound_rate' = DefaultRate)
       /\ StartReturn =>
            /\ stream_sample_rate' = local_rate
            /\ set_sample_rate' = 0
            /\ ~warned' => (stream' = "open" /\ active' /\ bound_rate' = local_rate)
      ]_vars

\* stop() has returned with a new stream at 44100, called while the target
\* rate a callback had recorded for a 48000 track was pending
C12_Witness ==
    /\ caller = "stop" /\ wpc = "idle" /\ ~warned
    /\ recorded = MaxRate /\ mq = <<>>
    /\ stream = "open" /\ active
    /\ stream_sample_rate = DefaultRate /\ bound_rate = DefaultRate
    /\ set_sample_rate = 0

StartCall == wpc = "idle" /\ wpc' = "close" /\ caller' = "start"
RenderStep == cbpc = "lock" /\ cbpc' = "mix"
ReadRateStep == wpc = "lock" /\ wpc' = "open"

\* C16: each step that reads or writes the shared audio state is taken
\* with the lock: start() and stop() hold it, and when the callback, the
\* notifier or openstream reads or writes the pending target rate, no
\* other context holds the lock.
C16_LockedAccess ==
    [][/\ (StartCall \/ StopCall) => lockOwner' = "worker"
       /\ RenderStep => lockOwner \in {"none", "cb"}
       /\ ReadRateStep => lockOwner \in {"none", "worker"}
       /\ NotifierStep => lockOwner = "none"
      ]_vars

\* C18: once decode_portaudio_init has returned 1 the stream's current rate
\* is not 0, and the rate an openstream has read to open the stream with is
\* not 0.
C18_RateNeverZero ==
    /\ ret = 1 => stream_sample_rate # 0
    /\ wpc \in {"open", "start"} => local_rate # 0

\* C19: the worker is never in start() or stop(), holding the lock and
\* closing a started stream, while a callback of that stream waits for the
\* lock.
C19_NoCloseDeadlock ==
    ~(/\ InStartStop /\ wpc = "close" /\ lockOwner = "worker"
      /\ stream = "open" /\ active
      /\ cbpc = "lock")

\* C20: the pointer openstream passes to the backend is that of an open
\* stream: to Pa_CloseStream if it is not NULL, and to
\* Pa_SetStreamFinishedCallback, Pa_GetStreamInfo and Pa_StartStream; and
\* openstream goes on to its end.
C20_HandleOpen ==
    /\ (wpc = "close" /\ stream # "NULL") => stream = "open"
    /\ wpc = "start" => stream = "open"
    /\ wpc # "crashed"

(***************************************************************************)
(* Properties of decode_portaudio_init.                                    *)
(***************************************************************************)
InitStep == wpc = "init" /\ wpc' # "init"
Supporting == {i \in 0..(Len(devices) - 1) : devices[i + 1]}

\* C14: decode_portaudio_init takes the lowest-indexed device that supports
\* stereo at 44100.  If no device does, or there is none, it returns 0 with
\* nothing allocated and no stream opened.  If one does then, unless
\* Pa_Initialize or an allocation failed and was logged, it sets the pending
\* target rate to 44100 and runs openstream, and it returns 1 as openstream
\* returns.
C14_DeviceSelection ==
    /\ [](ret = 0 => (stream = "NULL" /\ ~active /\ wpc = "unavailable"))
    /\ [][/\ InitStep =>
              IF Supporting = {}
              THEN /\ ret' = 0
                   /\ allocated' = {}
                   /\ UNCHANGED <<stream, set_sample_rate>>
              ELSE \/ warned' /\ ret' = 0
                   \/ /\ device' \in Supporting
                      /\ \A j \in Supporting : device' <= j
                      /\ set_sample_rate' = DefaultRate
                      /\ allocated' = {"decode_fifo_buf", "decode_audio"}
                      /\ wpc' = "close" /\ caller' = "init"
          /\ ret' # ret =>
              \/ InitStep /\ ret' = 0
              \/ caller = "init" /\ wpc = "start" /\ wpc' = "idle" /\ ret' = 1
         ]_vars

C14_Witness ==
    /\ devices = <<FALSE, TRUE>> /\ device = 1
    /\ ret = 1 /\ caller = "init"
    /\ stream = "open" /\ active /\ stream_sample_rate = DefaultRate

=============================================================================
